---- MODULE Spec2Model ----
(***************************************************************************)
(* minigrep (src/src/lib.rs): Config::new, run, search and                 *)
(* search_case_insensitive.                                                *)
(*                                                                         *)
(* A text (Rust String / &str) is a sequence of characters.  Characters    *)
(* are named by strings: "a" and "A" are a lower/upper ASCII pair, "SIGMA" *)
(* is U+03A3 GREEK CAPITAL LETTER SIGMA, "sigma" is U+03C3, "final_sigma"  *)
(* is U+03C2, "LF" is the newline U+000A and "CR" the carriage return      *)
(* U+000D, and "APOSTROPHE" is U+0027, a Case_Ignorable character.         *)
(*                                                                         *)
(* The library has two public entry points, modelled as two ways to start: *)
(* Config::new(args) on an argument iterator and an environment, and       *)
(* run(config) on any Config value (its fields are public, as the doc test *)
(* of run shows) and a file system.  The arguments are valid Unicode (the  *)
(* items of env::Args are Strings) and standard output accepts every       *)
(* write.                                                                  *)
(***************************************************************************)
EXTENDS Integers, Sequences, FiniteSets

VARIABLES pc, args, env, config, file, contents, results, printed, stdout, ret

vars == <<pc, args, env, config, file, contents, results, printed, stdout, ret>>

(***************************************************************************)
(* Bounds of the model.                                                    *)
(***************************************************************************)
MaxQueryLen == 2
MaxContentsLen == 3
MaxArgs == 4
MaxArgLen == 1

Alphabet == {"a", "A", "SIGMA", "APOSTROPHE", "LF", "CR"}
QueryAlphabet == {"a", "A", "SIGMA", "LF"}
ArgAlphabet == {"a", "A"}

RECURSIVE TextsOver(_, _)
TextsOver(alphabet, n) ==
    IF n = 0 THEN {<<>>}
    ELSE LET shorter == TextsOver(alphabet, n - 1)
         IN  shorter \cup {Append(t, c) : t \in {u \in shorter : Len(u) = n - 1}, c \in alphabet}

RECURSIVE SeqsOver(_, _)
SeqsOver(pool, n) ==
    IF n = 0 THEN {<<>>}
    ELSE LET shorter == SeqsOver(pool, n - 1)
         IN  shorter \cup {Append(t, c) : t \in {u \in shorter : Len(u) = n - 1}, c \in pool}

(***************************************************************************)
(* A containment test that never finds the empty needle.                   *)
(***************************************************************************)
contains_nonempty(haystack, needle) ==
    \E i \in 1..(Len(haystack) - Len(needle) + 1) :
        /\ Len(needle) > 0
        /\ SubSeq(haystack, i, i + Len(needle) - 1) = needle

(***************************************************************************)
(* str::contains(&str): literal substring containment.                     *)
(***************************************************************************)
contains(haystack, needle) ==
    \E i \in 0..(Len(haystack) - Len(needle)) :
        SubSeq(haystack, i + 1, i + Len(needle)) = needle

(***************************************************************************)
(* str::lines(): split_inclusive at LF, then strip one trailing LF and,    *)
(* only when an LF was stripped, one trailing CR.  A CR that no LF follows *)
(* stays in its line.                                                      *)
(***************************************************************************)
FirstLF(s) ==
    IF \E i \in 1..Len(s) : s[i] = "LF"
    THEN CHOOSE i \in 1..Len(s) : s[i] = "LF" /\ \A j \in 1..(i - 1) : s[j] # "LF"
    ELSE 0

RECURSIVE split_inclusive(_)
split_inclusive(s) ==
    IF s = <<>> THEN <<>>
    ELSE LET i == FirstLF(s)
         IN  IF i = 0 THEN <<s>>
             ELSE <<SubSeq(s, 1, i)>> \o split_inclusive(SubSeq(s, i + 1, Len(s)))

strip_line_ending(piece) ==
    IF Len(piece) > 0 /\ piece[Len(piece)] = "LF"
    THEN LET line == SubSeq(piece, 1, Len(piece) - 1)
         IN  IF Len(line) > 0 /\ line[Len(line)] = "CR"
             THEN SubSeq(line, 1, Len(line) - 1)
             ELSE line
    ELSE piece

(***************************************************************************)
(* A line splitter with the behaviour of str::split at LF: a terminating   *)
(* LF is followed by one more, empty, line.                                *)
(***************************************************************************)
lines_split(s) ==
    LET pieces == split_inclusive(s)
        stripped == [k \in 1..Len(pieces) |-> strip_line_ending(pieces[k])]
    IN  IF Len(s) > 0 /\ s[Len(s)] = "LF" THEN Append(stripped, <<>>) ELSE stripped

lines(s) ==
    LET pieces == split_inclusive(s)
    IN  [k \in 1..Len(pieces) |-> strip_line_ending(pieces[k])]

(***************************************************************************)
(* str::to_lowercase(): every character is mapped by the Unicode lower     *)
(* case table, except SIGMA, which maps to final_sigma at the end of a     *)
(* word (preceded by a cased letter, skipping case-ignorable characters,   *)
(* and not followed by one) and to sigma elsewhere.                        *)
(***************************************************************************)
Cased(c) == c \in {"a", "A", "SIGMA", "sigma", "final_sigma"}

Case_Ignorable(c) == c \in {"APOSTROPHE"}

RECURSIVE case_ignorable_then_cased(_)
case_ignorable_then_cased(iter) ==
    IF iter = <<>> THEN FALSE
    ELSE IF Case_Ignorable(Head(iter)) THEN case_ignorable_then_cased(Tail(iter))
    ELSE Cased(Head(iter))

Reverse(s) == [k \in 1..Len(s) |-> s[Len(s) + 1 - k]]

map_uppercase_sigma(from, i) ==
    LET is_word_final ==
            /\ case_ignorable_then_cased(Reverse(SubSeq(from, 1, i - 1)))
            /\ ~case_ignorable_then_cased(SubSeq(from, i + 1, Len(from)))
    IN  IF is_word_final THEN "final_sigma" ELSE "sigma"

to_lower(c) ==
    IF c = "A" THEN "a" ELSE c

to_lowercase(s) ==
    [i \in 1..Len(s) |->
        IF s[i] = "SIGMA" THEN map_uppercase_sigma(s, i) ELSE to_lower(s[i])]

(***************************************************************************)
(* search and search_case_insensitive.                                     *)
(***************************************************************************)
(***************************************************************************)
(* A search that folds the case of the line before the containment test.   *)
(***************************************************************************)
search_folding(query, text) ==
    SelectSeq(lines(text), LAMBDA line : contains(to_lowercase(line), query))

search(query, text) ==
    SelectSeq(lines(text), LAMBDA line : contains(line, query))

(***************************************************************************)
(* A case-insensitive search that returns the lowercased copies.           *)
(***************************************************************************)
search_case_insensitive_copies(query, text) ==
    LET q == to_lowercase(query)
        kept == SelectSeq(lines(text), LAMBDA line : contains(to_lowercase(line), q))
    IN  [k \in 1..Len(kept) |-> to_lowercase(kept[k])]

search_case_insensitive(query, text) ==
    LET q == to_lowercase(query)
    IN  SelectSeq(lines(text), LAMBDA line : contains(to_lowercase(line), q))

(***************************************************************************)
(* Result values.                                                          *)
(***************************************************************************)
None == [tag |-> "None"]
Ok(v) == [tag |-> "Ok", value |-> v]
Err(e) == [tag |-> "Err", error |-> e]
Unit == <<>>

(***************************************************************************)
(* env::var(key): Ok(value) when the variable is set to valid Unicode,     *)
(* Err(NotPresent) when it is not set, Err(NotUnicode) when it is set to   *)
(* a value that is not valid Unicode.                                      *)
(***************************************************************************)
env_var(e) ==
    IF ~e.present THEN Err("NotPresent")
    ELSE IF ~e.unicode THEN Err("NotUnicode")
    ELSE Ok(e.value)

is_err(r) == r.tag = "Err"

(***************************************************************************)
(* Config::new(args): args.next() drops the program name, the next two     *)
(* items are the query and the file name.                                  *)
(***************************************************************************)
next(iter) ==
    IF iter = <<>> THEN [item |-> None, rest |-> <<>>]
    ELSE [item |-> Ok(Head(iter)), rest |-> Tail(iter)]

(***************************************************************************)
(* Config::new with the two error messages exchanged, and Config::new      *)
(* without the leading args.next() that drops the program name.            *)
(***************************************************************************)
Config_new_messages_swapped(argv, e) ==
    LET n0 == next(argv)
        n1 == next(n0.rest)
        n2 == next(n1.rest)
    IN  IF n1.item = None THEN Err("Didn't get a file name")
        ELSE IF n2.item = None THEN Err("Didn't get a query string")
        ELSE Ok([query |-> n1.item.value,
                 filename |-> n2.item.value,
                 case_sensitive |-> is_err(env_var(e))])

Config_new_keeps_program_name(argv, e) ==
    LET n1 == next(argv)
        n2 == next(n1.rest)
    IN  IF n1.item = None THEN Err("Didn't get a query string")
        ELSE IF n2.item = None THEN Err("Didn't get a file name")
        ELSE Ok([query |-> n1.item.value,
                 filename |-> n2.item.value,
                 case_sensitive |-> is_err(env_var(e))])

Config_new(argv, e) ==
    LET n0 == next(argv)
        n1 == next(n0.rest)
        n2 == next(n1.rest)
    IN  IF n1.item = None THEN Err("Didn't get a query string")
        ELSE IF n2.item = None THEN Err("Didn't get a file name")
        ELSE Ok([query |-> n1.item.value,
                 filename |-> n2.item.value,
                 case_sensitive |-> is_err(env_var(e))])

(***************************************************************************)
(* run(config): fs::read_to_string(config.filename)?, then the search the  *)
(* flag selects, then println! of every returned line, then Ok(()).        *)
(***************************************************************************)
(***************************************************************************)
(* A read that yields the empty text for a file it cannot read.            *)
(***************************************************************************)
read_to_string_or_default(f) ==
    IF f.kind = "Text" THEN Ok(f.data) ELSE Ok(<<>>)

read_to_string(f) ==
    IF f.kind = "Text" THEN Ok(f.data) ELSE Err(f.kind)

(***************************************************************************)
(* A dispatch with the two branches exchanged.                             *)
(***************************************************************************)
run_results_swapped(cfg, text) ==
    IF cfg.case_sensitive
    THEN search_case_insensitive(cfg.query, text)
    ELSE search(cfg.query, text)

run_results(cfg, text) ==
    IF cfg.case_sensitive
    THEN search(cfg.query, text)
    ELSE search_case_insensitive(cfg.query, text)

println(line) == line \o <<"LF">>

(***************************************************************************)
(* Initial states.                                                         *)
(***************************************************************************)
FileName == <<"a">>

Queries == TextsOver(QueryAlphabet, MaxQueryLen)

Documents == TextsOver(Alphabet, MaxContentsLen)

ArgPool == TextsOver(ArgAlphabet, MaxArgLen)

EnvStates ==
    {[present |-> FALSE, unicode |-> TRUE, value |-> <<>>]}
    \cup {[present |-> TRUE, unicode |-> TRUE, value |-> v] : v \in {<<>>, <<"a">>}}
    \cup {[present |-> TRUE, unicode |-> FALSE, value |-> <<"xFF">>]}

FileStates ==
    {[kind |-> "NotFound", data |-> <<>>], [kind |-> "InvalidData", data |-> <<>>]}
    \cup {[kind |-> "Text", data |-> d] : d \in Documents}

InitNew ==
    /\ pc = "new"
    /\ args \in SeqsOver(ArgPool, MaxArgs)
    /\ env \in EnvStates
    /\ file \in {[kind |-> "NotFound", data |-> <<>>], [kind |-> "Text", data |-> <<"a">>]}
    /\ config = None

InitRun ==
    /\ pc = "run"
    /\ args = <<>>
    /\ env = [present |-> FALSE, unicode |-> TRUE, value |-> <<>>]
    /\ file \in FileStates
    /\ config \in [query : Queries, filename : {FileName}, case_sensitive : BOOLEAN]

Init ==
    /\ InitNew \/ InitRun
    /\ contents = <<>>
    /\ results = <<>>
    /\ printed = 0
    /\ stdout = <<>>
    /\ ret = None

(***************************************************************************)
(* Actions.                                                                *)
(***************************************************************************)
ConfigNew ==
    /\ pc = "new"
    /\ LET r == Config_new(args, env)
       IN  /\ ret' = (IF is_err(r) THEN r ELSE Ok(Unit))
           /\ config' = (IF is_err(r) THEN config ELSE r.value)
    /\ pc' = "new_done"
    /\ UNCHANGED <<args, env, file, contents, results, printed, stdout>>

RunReadOk ==
    /\ pc = "run"
    /\ ~is_err(read_to_string(file))
    /\ contents' = read_to_string(file).value
    /\ pc' = "search"
    /\ UNCHANGED <<args, env, config, file, results, printed, stdout, ret>>

RunReadErr ==
    /\ pc = "run"
    /\ is_err(read_to_string(file))
    /\ ret' = read_to_string(file)
    /\ pc' = "done"
    /\ UNCHANGED <<args, env, config, file, contents, results, printed, stdout>>

RunSearch ==
    /\ pc = "search"
    /\ results' = run_results(config, contents)
    /\ pc' = "print"
    /\ UNCHANGED <<args, env, config, file, contents, printed, stdout, ret>>

RunPrint ==
    /\ pc = "print"
    /\ printed < Len(results)
    /\ stdout' = stdout \o println(results[printed + 1])
    /\ printed' = printed + 1
    /\ UNCHANGED <<pc, args, env, config, file, contents, results, ret>>

RunReturn ==
    /\ pc = "print"
    /\ printed = Len(results)
    /\ ret' = Ok(Unit)
    /\ pc' = "done"
    /\ UNCHANGED <<args, env, config, file, contents, results, printed, stdout>>

Next ==
    \/ ConfigNew
    \/ RunReadOk
    \/ RunReadErr
    \/ RunSearch
    \/ RunPrint
    \/ RunReturn

Spec == Init /\ [][Next]_vars

TypeOK ==
    /\ pc \in {"new", "new_done", "run", "search", "print", "done"}
    /\ printed \in 0..Len(results)

(***************************************************************************)
(* Vocabulary of the properties.                                           *)
(***************************************************************************)
\* run has computed `results` from `contents`.
Searched == pc = "print" \/ (pc = "done" /\ ret = Ok(Unit))

\* Config::new has returned.
Returned == pc = "new_done"

\* The arguments left once the program name is dropped.
Remaining == IF args = <<>> THEN <<>> ELSE Tail(args)

\* q occurs in line as a contiguous run of characters.
HasSubstring(line, q) ==
    \E i \in 1..(Len(line) + 1) : \E j \in (i - 1)..Len(line) : SubSeq(line, i, j) = q

\* The k-th smallest member of a set of indices.
Kth(I, k) == CHOOSE i \in I : Cardinality({j \in I : j < i}) = k - 1

\* The members of ls at the indices I, in the order and multiplicity of ls.
Picked(ls, I) == [k \in 1..Cardinality(I) |-> ls[Kth(I, k)]]

NumLF(s) == Cardinality({i \in 1..Len(s) : s[i] = "LF"})

\* The part of s after its last LF (all of s when it has none).
AfterLastLF(s) ==
    LET at == {i \in 1..Len(s) : s[i] = "LF"}
        last == IF at = {} THEN 0 ELSE CHOOSE i \in at : \A j \in at : j <= i
    IN  SubSeq(s, last + 1, Len(s))

RECURSIVE IsSubsequence(_, _)
IsSubsequence(a, b) ==
    IF a = <<>> THEN TRUE
    ELSE IF b = <<>> THEN FALSE
    ELSE IF Head(a) = Head(b) THEN IsSubsequence(Tail(a), Tail(b))
    ELSE IsSubsequence(a, Tail(b))

\* The characters println! has written for the first n of rs.
RECURSIVE Emitted(_, _)
Emitted(rs, n) ==
    IF n = 0 THEN <<>> ELSE Emitted(rs, n - 1) \o rs[n] \o <<"LF">>

(***************************************************************************)
(* C1: the case-sensitive search returns exactly the lines of contents     *)
(* that contain the query as a literal substring, in the order and with    *)
(* the multiplicity they have in contents.                                 *)
(***************************************************************************)
C1_SearchExact ==
    (Searched /\ config.case_sensitive) =>
        LET ls == lines(contents)
        IN  results = Picked(ls, {i \in DOMAIN ls : HasSubstring(ls[i], config.query)})

\* Query "a" keeps a line with "a" and leaves out a line that has only "A".
C1_Witness ==
    /\ Searched /\ config.case_sensitive
    /\ config.query = <<"a">>
    /\ contents = <<"a", "LF", "A">>
    /\ results = << <<"a">> >>

(***************************************************************************)
(* C2: the case-insensitive search returns, in original order, exactly the *)
(* lines whose lowercased copy contains the lowercased query, and every    *)
(* returned line is the original line, not its lowercased copy.            *)
(***************************************************************************)
C2_SearchCaseInsensitiveExact ==
    (Searched /\ ~config.case_sensitive) =>
        LET ls == lines(contents)
            q == to_lowercase(config.query)
        IN  results = Picked(ls, {i \in DOMAIN ls : HasSubstring(to_lowercase(ls[i]), q)})

\* Query "aA" returns the line "Aa" in its original casing.
C2_Witness ==
    /\ Searched /\ ~config.case_sensitive
    /\ config.query = <<"a", "A">>
    /\ \E k \in 1..Len(results) :
        results[k] = <<"A", "a">> /\ to_lowercase(results[k]) # results[k]
    /\ Len(results) < Len(lines(contents))

(***************************************************************************)
(* C3: Config::new returns an error exactly when fewer than two arguments  *)
(* remain after the program name; the error names the query when none      *)
(* remains and the file name when one remains.                             *)
(***************************************************************************)
C3_MissingArgument ==
    Returned =>
        /\ is_err(ret) <=> Len(Remaining) < 2
        /\ Len(Remaining) = 0 => ret = Err("Didn't get a query string")
        /\ Len(Remaining) = 1 => ret = Err("Didn't get a file name")
        /\ Len(Remaining) >= 2 => ret = Ok(Unit)

\* One (empty) argument after the program name: the file name, not the
\* query, is reported missing.
C3_Witness ==
    /\ Returned
    /\ Len(args) = 2
    /\ args[2] = <<>>
    /\ ret = Err("Didn't get a file name")
    /\ file.kind = "NotFound"

(***************************************************************************)
(* C4: the Config that Config::new returns has case_sensitive = FALSE      *)
(* exactly when the environment variable is present, whatever its value.   *)
(***************************************************************************)
C4_FlagFollowsPresence ==
    (Returned /\ ~is_err(ret)) => (config.case_sensitive <=> ~env.present)

C6_DispatchAndPrint ==
    /\ Searched =>
          /\ contents = file.data
          /\ results = (IF config.case_sensitive
                        THEN search(config.query, file.data)
                        ELSE search_case_insensitive(config.query, file.data))
          /\ stdout = Emitted(results, printed)
          /\ NumLF(stdout) = printed
    /\ stdout # <<>> => (Searched /\ file.kind = "Text")
    /\ (pc = "done" /\ file.kind = "Text") => (ret = Ok(Unit) /\ printed = Len(results))

\* A finished run on which the two searches differ, with two lines printed.
C6_Witness ==
    /\ pc = "done" /\ ret = Ok(Unit)
    /\ ~config.case_sensitive
    /\ Len(results) = 2
    /\ search(config.query, contents) # results
    /\ stdout = results[1] \o <<"LF">> \o results[2] \o <<"LF">>

(***************************************************************************)
(* C7: with at least two arguments after the program name, Config::new     *)
(* succeeds with the first as query and the second as file name; the       *)
(* program name and any later argument are not used.                       *)
(***************************************************************************)
C7_QueryAndFilename ==
    (Returned /\ Len(Remaining) >= 2) =>
        /\ ret = Ok(Unit)
        /\ config.query = args[2]
        /\ config.filename = args[3]

\* Four arguments, all different from their neighbours.
C7_Witness ==
    /\ Returned
    /\ Len(args) = 4
    /\ args[1] # args[2] /\ args[2] # args[3] /\ args[4] # args[3]
    /\ config.query = args[2] /\ config.filename = args[3]

(***************************************************************************)
(* C8: on empty contents either search returns no line, whatever the       *)
(* query; the empty query returns every line of contents, in order.        *)
(***************************************************************************)
C8_EmptyContentsEmptyQuery ==
    Searched =>
        /\ contents = <<>> => results = <<>>
        /\ config.query = <<>> =>
              /\ results = lines(contents)
              /\ contents # <<>> => Len(results) >= 1

\* The empty query on a two-line text, case-insensitively.
C8_Witness ==
    /\ Searched /\ ~config.case_sensitive
    /\ config.query = <<>>
    /\ contents = <<"A", "LF", "a">>
    /\ results = << <<"A">>, <<"a">> >>

(***************************************************************************)
(* C9: a final line without a terminating newline is a candidate line, a   *)
(* trailing newline adds no empty last line, empty lines are kept, and no  *)
(* returned line contains a newline.                                       *)
(***************************************************************************)
C9_LineSplitting ==
    Searched =>
        /\ \A k \in 1..Len(results) : \A i \in 1..Len(results[k]) : results[k][i] # "LF"
        /\ config.query = <<>> =>
              /\ Len(results) = NumLF(contents)
                    + (IF contents # <<>> /\ contents[Len(contents)] # "LF" THEN 1 ELSE 0)
              /\ (contents # <<>> /\ contents[Len(contents)] # "LF") =>
                    results[Len(results)] = AfterLastLF(contents)

\* Two empty lines followed by an unterminated last line, all three returned.
C9_Witness ==
    /\ Searched
    /\ config.query = <<>>
    /\ contents = <<"LF", "LF", "a">>
    /\ results = << <<>>, <<>>, <<"a">> >>

(***************************************************************************)
(* C10: every line the case-sensitive search returns is also returned by   *)
(* the case-insensitive search, in the same relative order.                *)
(***************************************************************************)
C10_SensitiveWithinInsensitive ==
    (Searched /\ config.case_sensitive) =>
        /\ IsSubsequence(results, search_case_insensitive(config.query, contents))
        /\ IsSubsequence(results, lines(contents))
        /\ IsSubsequence(search_case_insensitive(config.query, contents), lines(contents))

====
